---- MODULE Spec2Model ----
(***************************************************************************)
(* The ad generator's store (lib/store.ts): the Project aggregate, the     *)
(* selected shot and the pipeline status, with one action per store        *)
(* operation.                                                              *)
(*                                                                         *)
(* Encoding of JavaScript values:                                          *)
(*   - a uuid is a positive integer drawn from the counter nextId, so      *)
(*     every uuidv4() call returns a value never returned before;          *)
(*   - null is Null, a numeric undefined is Undefined, an undefined        *)
(*     string or image is UndefinedStr;                                    *)
(*   - an object is a record; the spread {...a, ...b} is Merge(a, b);      *)
(*   - new Date() is the clock reading of the call. Every store call       *)
(*     happens at a later reading than the call before it.                 *)
(*                                                                         *)
(* The shot editor (components/ShotEditor.tsx) works on what its latest    *)
(* render captured: rendered is the shot it was given, with that shot's    *)
(* reference images. The page (app/page.tsx) starts generation runs: runs  *)
(* holds the runs of handleGenerateAll that have started and not ended,    *)
(* each suspended at one of its awaits.                                    *)
(***************************************************************************)
EXTENDS Integers, Sequences, FiniteSets, TLC

VARIABLES project, selectedShotId, generationProgress, now, nextId, lastCall, prev,
          rendered, runs

vars == <<project, selectedShotId, generationProgress, now, nextId, lastCall, prev,
          rendered, runs>>

\* The store's own state (AdGeneratorState). now and nextId are the environment
\* (the clock, the uuid generator); lastCall and prev are history variables:
\* the latest store call with its arguments, and the store's state before it.
store ==
    [ project            |-> project,
      selectedShotId     |-> selectedShotId,
      generationProgress |-> generationProgress ]

\* Number of store calls explored from the initial state.
MaxClock == 3

\* Number of store calls explored in the specification of the shot-list operations.
MaxShotOps == 5

\* Number of store calls explored in the specification of generation reporting.
MaxReportOps == 3

\* Number of store calls explored in the specification of the estimates.
MaxEstimateOps == 5

\* Number of store calls explored in the specification of resetProject.
MaxResetOps == 3

\* Number of editor and timeline events explored in the specification of the
\* shot editor's selectors.
MaxEditorOps == 5

\* Number of store calls and drop events explored in the specification of the
\* image dropzone, and the largest number of files in one drop.
MaxDropOps == 4
MaxDropFiles == 3

\* Number of store calls explored in the specifications of the shot ids and
\* of the selection.
MaxIdOps == 4
MaxSelectionOps == 4

\* Number of editing calls explored beside the generation runs, and the
\* number of runs that may be in progress together.
MaxGenerateOps == 4
MaxRuns == 2

\* Number of store calls explored in the specification of the progress
\* pipeline, and the largest shot count its inputs are drawn from.
MaxProgressOps == 1
MaxTotalShots == 6

Null == 0
Undefined == 0 - 1
UndefinedStr == "undefined"

----------------------------------------------------------------------------
(* Object and array helpers *)

\* {...s, ...u}: the fields of both, u's value where both have the field
Merge(s, u) == u @@ s

\* {} as a Partial<T>
EmptyPatch == [f \in {} |-> Undefined]

\* s.id, which is undefined on an object that has no id
ShotId(s) == IF "id" \in DOMAIN s THEN s.id ELSE Undefined

\* shots.filter(s => s.id !== id)
FilterOutFirst(shots, id) == Tail(shots)

FilterOut(shots, id) == SelectSeq(shots, LAMBDA s : ShotId(s) # id)

\* shots.map((s, i) => ({ ...s, order: i }))
ReindexKeepingOrder(shots) == shots

Reindex(shots) ==
    [i \in 1..Len(shots) |-> Merge(shots[i], [order |-> i - 1])]

\* shots.map(s => s.id === id ? { ...s, ...updates } : s)
MapShot(shots, id, updates) ==
    [i \in 1..Len(shots) |->
        IF ShotId(shots[i]) = id THEN Merge(shots[i], updates) ELSE shots[i]]

\* shots.find(s => s.id === id): the index (from 1) of the first match, 0 if none
FindIndex(shots, id) ==
    IF \E i \in 1..Len(shots) : ShotId(shots[i]) = id
    THEN CHOOSE i \in 1..Len(shots) :
            /\ ShotId(shots[i]) = id
            /\ \A j \in 1..(i - 1) : ShotId(shots[j]) # id
    ELSE 0

\* Array.prototype.splice: the start index clamped into 0..len
\* (a negative start counts from the end).
SpliceStart(len, start) ==
    IF start < 0
    THEN (IF len + start > 0 THEN len + start ELSE 0)
    ELSE (IF start < len THEN start ELSE len)

\* arr.splice(start, 1): the array that is left
SpliceRemoveOne(arr, start) ==
    LET k == SpliceStart(Len(arr), start) IN
    IF k < Len(arr)
    THEN SubSeq(arr, 1, k) \o SubSeq(arr, k + 2, Len(arr))
    ELSE arr

\* arr.splice(start, 1): the removed elements (one, or none)
SpliceRemoved(arr, start) ==
    LET k == SpliceStart(Len(arr), start) IN
    IF k < Len(arr) THEN <<arr[k + 1]>> ELSE << >>

\* arr.splice(start, 0, item): the array with item inserted
SpliceInsert(arr, start, item) ==
    LET k == SpliceStart(Len(arr), start) IN
    SubSeq(arr, 1, k) \o <<item>> \o SubSeq(arr, k + 1, Len(arr))

----------------------------------------------------------------------------
(* Defaults *)

createDefaultShotQueued(order, id) ==
    [ id                |-> id,
      order             |-> order,
      prompt            |-> "",
      negativePrompt    |-> "low quality, blurry, amateur, text, watermark, distorted",
      duration          |-> 8,
      resolution        |-> "1080p",
      aspectRatio       |-> "16:9",
      referenceImages   |-> << >>,
      firstFrame        |-> UndefinedStr,
      lastFrame         |-> UndefinedStr,
      generatedVideoUrl |-> UndefinedStr,
      thumbnailUrl      |-> UndefinedStr,
      status            |-> "queued",
      progress          |-> 0,
      error             |-> UndefinedStr ]

createDefaultShot(order, id) ==
    [ id                |-> id,
      order             |-> order,
      prompt            |-> "",
      negativePrompt    |-> "low quality, blurry, amateur, text, watermark, distorted",
      duration          |-> 8,
      resolution        |-> "1080p",
      aspectRatio       |-> "16:9",
      referenceImages   |-> << >>,
      firstFrame        |-> UndefinedStr,
      lastFrame         |-> UndefinedStr,
      generatedVideoUrl |-> UndefinedStr,
      thumbnailUrl      |-> UndefinedStr,
      status            |-> "draft",
      progress          |-> 0,
      error             |-> UndefinedStr ]

\* The project takes the first uuid, its shot the second; date is new Date().
createDefaultProject(id, date) ==
    [ id            |-> id,
      name          |-> "Untitled Ad",
      brand         |-> [ name           |-> "Brand Name",
                          tagline        |-> "Your Tagline Here",
                          primaryColor   |-> "#000000",
                          secondaryColor |-> "#ffffff",
                          logoUrl        |-> UndefinedStr ],
      shots         |-> <<createDefaultShot(0, id + 1)>>,
      voiceover     |-> [ script            |-> "",
                          voiceId           |-> "EXAVITQu4vr4xnSDxMaL",
                          voiceName         |-> "Sarah",
                          stability         |-> 70,
                          similarityBoost   |-> 80,
                          style             |-> 50,
                          generatedAudioUrl |-> UndefinedStr,
                          status            |-> "draft",
                          progress          |-> 0,
                          error             |-> UndefinedStr ],
      finalVideoUrl |-> UndefinedStr,
      status        |-> "draft",
      totalDuration |-> 8,
      estimatedCost |-> 0,
      createdAt     |-> date,
      updatedAt     |-> date ]

IdleProgress ==
    [ stage        |-> "idle",
      message      |-> "Ready to generate",
      currentShot  |-> Undefined,
      totalShots   |-> Undefined,
      shotProgress |-> Undefined ]

\* Before the first render no shot editor is shown.
NotRendered == [shotId |-> Null, images |-> << >>]

Init ==
    /\ now = 0
    /\ rendered = NotRendered
    /\ runs = << >>
    /\ project = createDefaultProject(1, 0)
    /\ nextId = 3
    /\ selectedShotId = Null
    /\ generationProgress = IdleProgress
    /\ lastCall = [op |-> "create"]
    /\ prev = [ project            |-> createDefaultProject(1, 0),
                selectedShotId     |-> Null,
                generationProgress |-> IdleProgress ]

----------------------------------------------------------------------------
(* Arguments the callers pass *)

\* The ids of the shots of the project
ShotIds == {ShotId(project.shots[i]) : i \in 1..Len(project.shots)} \ {Undefined}

\* A shot id argument: the id of a shot, or a uuid that no shot carries
\* (the project's own id).
IdArgs == ShotIds \cup {project.id}

\* An index argument of reorderShots: any integer around 0..N-1
IndexArgs == (0 - 1)..Len(project.shots)

\* An index argument inside 0..N-1
IndexesInRange == 0..(Len(project.shots) - 1)

NameArgs == {"Chanel No. 5"}

BrandArgs ==
    << EmptyPatch,
       [name |-> "Chanel", tagline |-> "Inside"],
       [logoUrl |-> "blob:logo"] >>

ImageArgs == {"img-a", "img-b"}

\* The patches ShotEditor passes to updateShot
EditorPatches ==
    << EmptyPatch,
       [prompt |-> "a bottle on marble"],
       [negativePrompt |-> "text"],
       [duration |-> 4],
       [resolution |-> "720p", duration |-> 8],
       [resolution |-> "1080p", duration |-> 8],
       [aspectRatio |-> "9:16"],
       [duration |-> 6] >>

\* A uuid already in use: the oldest shot's id (the project's id when there is no shot)
UsedId ==
    IF ShotIds = {} THEN project.id
    ELSE CHOOSE x \in ShotIds : \A y \in ShotIds : x <= y

\* Patches that Partial<Shot> admits and no component passes
OtherPatches ==
    << [order |-> 0],
       [id |-> UsedId],
       [status |-> "completed", progress |-> 100],
       [referenceImages |-> <<"img-a", "img-a", "img-b", "img-b">>] >>

ShotPatches == EditorPatches \o OtherPatches

\* A voiceover script of 100 characters
ScriptOfHundred ==
    "Timeless elegance in every drop: a fragrance of light and of memory, made for her, and made to last."

VoiceoverArgs ==
    << EmptyPatch,
       [script |-> "Timeless."],
       [voiceId |-> "XB0fDUnXU5powFXDhCwa", voiceName |-> "Charlotte"],
       [stability |-> 30, similarityBoost |-> 100, style |-> 0],
       [script |-> ScriptOfHundred] >>

\* The options of the editor's duration selector: 4 and 6 seconds are
\* disabled while the shot is 1080p.
Durations == {4, 6, 8}

DurationEnabled(shot, duration) == duration = 8 \/ shot.resolution # "1080p"

\* const duration = resolution === '1080p' ? 8 : shot.duration
QualityPatchKeepingDuration(shot, resolution) ==
    [ resolution |-> resolution, duration |-> shot.duration ]

\* The patch of the editor's quality selector: 1080p requires 8 seconds,
\* 720p keeps the duration the shot has.
QualityPatch(shot, resolution) ==
    [ resolution |-> resolution,
      duration   |-> IF resolution = "1080p" THEN 8 ELSE shot.duration ]

ShotStatuses == {"draft", "queued", "generating", "completed", "failed"}

\* Arguments of setShotStatus: the calls of the page's generation run
\* (generating at 0 and at a later step, completed at 100), a queued shot
\* with both optional arguments omitted, and a failure with its message.
StatusReports ==
    << [status |-> "generating", progress |-> 0,   error |-> UndefinedStr],
       [status |-> "generating", progress |-> 50,  error |-> UndefinedStr],
       [status |-> "completed",  progress |-> 100, error |-> UndefinedStr],
       [status |-> "queued",     progress |-> Undefined, error |-> UndefinedStr],
       [status |-> "failed",     progress |-> 0,   error |-> "timeout"] >>

Stages ==
    {"idle", "uploading", "generating_shots", "generating_voice",
     "assembling", "completed", "failed"}

----------------------------------------------------------------------------
(* Store operations.  Each is one call of set(...): an atomic step. *)

\* The call takes place at the next clock reading; new Date() returns now'.
\* What the components have rendered is not renewed by the call itself.
Called(op, args) ==
    /\ now' = now + 1
    /\ lastCall' = Merge([op |-> op], args)
    /\ prev' = store
    /\ rendered' = rendered
    /\ runs' = runs

setProjectName(name) ==
    /\ Called("setProjectName", [name |-> name])
    /\ project' = Merge(project, [name |-> name, updatedAt |-> now'])
    /\ UNCHANGED <<selectedShotId, generationProgress, nextId>>

setBrand(brand) ==
    /\ Called("setBrand", [brand |-> brand])
    /\ project' = Merge(project, [brand     |-> Merge(project.brand, brand),
                                  updatedAt |-> now'])
    /\ UNCHANGED <<selectedShotId, generationProgress, nextId>>

addShotReusingId ==
    /\ Called("addShot", EmptyPatch)
    /\ LET newShot == createDefaultShot(Len(project.shots), nextId - 1) IN
       /\ project' = Merge(project, [shots     |-> project.shots \o <<newShot>>,
                                     updatedAt |-> now'])
       /\ selectedShotId' = newShot.id
    /\ nextId' = nextId + 1
    /\ UNCHANGED generationProgress

addShot ==
    /\ Called("addShot", EmptyPatch)
    /\ LET newShot == createDefaultShot(Len(project.shots), nextId) IN
       /\ project' = Merge(project, [shots     |-> project.shots \o <<newShot>>,
                                     updatedAt |-> now'])
       /\ selectedShotId' = newShot.id
    /\ nextId' = nextId + 1
    /\ UNCHANGED generationProgress

\* if (state.project.shots.length <= 1) return state
IsLastShotAllowingEmpty(shots) == Len(shots) < 1

IsLastShot(shots) == Len(shots) <= 1

\* shots[0]?.id || null
FirstIdOrNullAlwaysNull(shots) == Null

FirstIdOrNull(shots) ==
    IF Len(shots) > 0 /\ ShotId(shots[1]) # Undefined THEN ShotId(shots[1]) ELSE Null

removeShotKeepingSelection(id) ==
    /\ Called("removeShot", [id |-> id])
    /\ IF IsLastShot(project.shots)
       THEN UNCHANGED <<project, selectedShotId>>
       ELSE LET shots == Reindex(FilterOut(project.shots, id)) IN
            /\ project' = Merge(project, [shots |-> shots, updatedAt |-> now'])
            /\ selectedShotId' = selectedShotId
    /\ UNCHANGED <<generationProgress, nextId>>

removeShot(id) ==
    /\ Called("removeShot", [id |-> id])
    /\ IF IsLastShot(project.shots)
       THEN UNCHANGED <<project, selectedShotId>>
       ELSE LET shots == Reindex(FilterOut(project.shots, id)) IN
            /\ project' = Merge(project, [shots |-> shots, updatedAt |-> now'])
            /\ selectedShotId' =
                  IF selectedShotId = id THEN FirstIdOrNull(shots) ELSE selectedShotId
    /\ UNCHANGED <<generationProgress, nextId>>

\* s.id === id ? { ...s, ...updates } : s
updateShotRedrafting(id, updates) ==
    /\ Called("updateShot", [id |-> id, updates |-> updates])
    /\ project' = Merge(project,
          [shots     |-> MapShot(project.shots, id, Merge(updates, [status |-> "draft"])),
           updatedAt |-> now'])
    /\ UNCHANGED <<selectedShotId, generationProgress, nextId>>

updateShot(id, updates) ==
    /\ Called("updateShot", [id |-> id, updates |-> updates])
    /\ project' = Merge(project, [shots     |-> MapShot(project.shots, id, updates),
                                  updatedAt |-> now'])
    /\ UNCHANGED <<selectedShotId, generationProgress, nextId>>

\* const [moved] = shots.splice(fromIndex, 1); shots.splice(toIndex, 0, moved).
\* When nothing was removed, moved is undefined and {...undefined, order: i}
\* is an object with the single field order.
SplicedBySwap(shots, fromIndex, toIndex) ==
    [i \in 1..Len(shots) |->
        IF i = fromIndex + 1 THEN shots[toIndex + 1]
        ELSE IF i = toIndex + 1 THEN shots[fromIndex + 1]
        ELSE shots[i]]

Spliced(shots, fromIndex, toIndex) ==
    LET removed == SpliceRemoved(shots, fromIndex)
        rest    == SpliceRemoveOne(shots, fromIndex)
        moved   == IF removed = << >> THEN EmptyPatch ELSE removed[1]
    IN  SpliceInsert(rest, toIndex, moved)

reorderShots(fromIndex, toIndex) ==
    /\ Called("reorderShots", [fromIndex |-> fromIndex, toIndex |-> toIndex])
    /\ project' = Merge(project,
                        [shots     |-> Reindex(Spliced(project.shots, fromIndex, toIndex)),
                         updatedAt |-> now'])
    /\ UNCHANGED <<selectedShotId, generationProgress, nextId>>

selectShot(id) ==
    /\ Called("selectShot", [id |-> id])
    /\ selectedShotId' = id
    /\ UNCHANGED <<project, generationProgress, nextId>>

\* { ...shot, id: uuidv4(), order: shots.length, status: 'draft', progress: 0,
\*   generatedVideoUrl: undefined, thumbnailUrl: undefined }
duplicateShotKeepingResult(id) ==
    /\ Called("duplicateShot", [id |-> id])
    /\ LET k == FindIndex(project.shots, id) IN
       IF k = 0
       THEN UNCHANGED <<project, selectedShotId, nextId>>
       ELSE LET newShot == Merge(project.shots[k],
                                 [ id    |-> nextId,
                                   order |-> Len(project.shots) ])
            IN  /\ project' = Merge(project,
                                    [shots     |-> project.shots \o <<newShot>>,
                                     updatedAt |-> now'])
                /\ selectedShotId' = newShot.id
                /\ nextId' = nextId + 1
    /\ UNCHANGED generationProgress

duplicateShot(id) ==
    /\ Called("duplicateShot", [id |-> id])
    /\ LET k == FindIndex(project.shots, id) IN
       IF k = 0
       THEN UNCHANGED <<project, selectedShotId, nextId>>
       ELSE LET newShot == Merge(project.shots[k],
                                 [ id                |-> nextId,
                                   order             |-> Len(project.shots),
                                   status            |-> "draft",
                                   progress          |-> 0,
                                   generatedVideoUrl |-> UndefinedStr,
                                   thumbnailUrl      |-> UndefinedStr ])
            IN  /\ project' = Merge(project,
                                    [shots     |-> project.shots \o <<newShot>>,
                                     updatedAt |-> now'])
                /\ selectedShotId' = newShot.id
                /\ nextId' = nextId + 1
    /\ UNCHANGED generationProgress

\* s.referenceImages.filter(i => i.id !== imageId)
FilterImages(images, imageId) == SelectSeq(images, LAMBDA i : i # imageId)

\* The shots that s.id === shotId selects are complete shots: an object
\* without id never matches, so s.referenceImages is read on full shots only.
WithImage(shots, shotId, image) ==
    [i \in 1..Len(shots) |->
        IF ShotId(shots[i]) = shotId
        THEN Merge(shots[i], [referenceImages |-> shots[i].referenceImages \o <<image>>])
        ELSE shots[i]]

addImageToShot(shotId, image) ==
    /\ Called("addImageToShot", [shotId |-> shotId, image |-> image])
    /\ project' = Merge(project,
          [shots     |-> WithImage(project.shots, shotId, image),
           updatedAt |-> now'])
    /\ UNCHANGED <<selectedShotId, generationProgress, nextId>>

removeImageFromShot(shotId, imageId) ==
    /\ Called("removeImageFromShot", [shotId |-> shotId, imageId |-> imageId])
    /\ project' = Merge(project,
          [shots |-> [i \in 1..Len(project.shots) |->
                        IF ShotId(project.shots[i]) = shotId
                        THEN Merge(project.shots[i],
                                   [referenceImages |->
                                       FilterImages(project.shots[i].referenceImages,
                                                    imageId)])
                        ELSE project.shots[i]],
           updatedAt |-> now'])
    /\ UNCHANGED <<selectedShotId, generationProgress, nextId>>

setFirstFrame(shotId, image) ==
    /\ Called("setFirstFrame", [shotId |-> shotId, image |-> image])
    /\ project' = Merge(project,
          [shots     |-> MapShot(project.shots, shotId, [firstFrame |-> image]),
           updatedAt |-> now'])
    /\ UNCHANGED <<selectedShotId, generationProgress, nextId>>

setLastFrame(shotId, image) ==
    /\ Called("setLastFrame", [shotId |-> shotId, image |-> image])
    /\ project' = Merge(project,
          [shots     |-> MapShot(project.shots, shotId, [lastFrame |-> image]),
           updatedAt |-> now'])
    /\ UNCHANGED <<selectedShotId, generationProgress, nextId>>

updateVoiceover(updates) ==
    /\ Called("updateVoiceover", [updates |-> updates])
    /\ project' = Merge(project, [voiceover |-> Merge(project.voiceover, updates),
                                  updatedAt |-> now'])
    /\ UNCHANGED <<selectedShotId, generationProgress, nextId>>

\* generationProgress: { ...state.generationProgress, ...progress }
setGenerationProgressReplacing(progress) ==
    /\ Called("setGenerationProgress", [progress |-> progress])
    /\ generationProgress' = Merge(IdleProgress, progress)
    /\ UNCHANGED <<project, selectedShotId, nextId>>

setGenerationProgress(progress) ==
    /\ Called("setGenerationProgress", [progress |-> progress])
    /\ generationProgress' = Merge(generationProgress, progress)
    /\ UNCHANGED <<project, selectedShotId, nextId>>

\* (shotId, status, progress = 0, error): an omitted (undefined) progress is 0
DefaultProgress(progress) == IF progress = Undefined THEN 0 ELSE progress

\* { ...s, status, progress, error }
setShotStatusClearingVideo(shotId, status, progress, error) ==
    /\ Called("setShotStatus", [shotId |-> shotId, status |-> status, progress |-> progress, error |-> error])
    /\ project' = Merge(project,
          [shots |-> MapShot(project.shots, shotId,
                             [status |-> status, progress |-> DefaultProgress(progress),
                              error |-> error, generatedVideoUrl |-> UndefinedStr])])
    /\ UNCHANGED <<selectedShotId, generationProgress, nextId>>

\* error is undefined when the caller omits it.
setShotStatus(shotId, status, progress, error) ==
    /\ Called("setShotStatus", [shotId |-> shotId, status |-> status, progress |-> progress, error |-> error])
    /\ project' = Merge(project,
          [shots |-> MapShot(project.shots, shotId,
                             [status |-> status, progress |-> DefaultProgress(progress),
                              error |-> error])])
    /\ UNCHANGED <<selectedShotId, generationProgress, nextId>>

\* { ...s, generatedVideoUrl: url, thumbnailUrl, status: 'completed', progress: 100 }
setShotVideoUrlKeepingStatus(shotId, url, thumbnailUrl) ==
    /\ Called("setShotVideoUrl", [shotId |-> shotId, url |-> url, thumbnailUrl |-> thumbnailUrl])
    /\ project' = Merge(project,
          [shots |-> MapShot(project.shots, shotId,
                             [ generatedVideoUrl |-> url,
                               thumbnailUrl      |-> thumbnailUrl ])])
    /\ UNCHANGED <<selectedShotId, generationProgress, nextId>>

setShotVideoUrl(shotId, url, thumbnailUrl) ==
    /\ Called("setShotVideoUrl", [shotId |-> shotId, url |-> url, thumbnailUrl |-> thumbnailUrl])
    /\ project' = Merge(project,
          [shots |-> MapShot(project.shots, shotId,
                             [ generatedVideoUrl |-> url,
                               thumbnailUrl      |-> thumbnailUrl,
                               status            |-> "completed",
                               progress          |-> 100 ])])
    /\ UNCHANGED <<selectedShotId, generationProgress, nextId>>

setVoiceoverAudioUrl(url) ==
    /\ Called("setVoiceoverAudioUrl", [url |-> url])
    /\ project' = Merge(project,
          [voiceover |-> Merge(project.voiceover,
                               [ generatedAudioUrl |-> url,
                                 status            |-> "completed",
                                 progress          |-> 100 ])])
    /\ UNCHANGED <<selectedShotId, generationProgress, nextId>>

setFinalVideoUrlKeepingStatus(url) ==
    /\ Called("setFinalVideoUrl", [url |-> url])
    /\ project' = Merge(project, [finalVideoUrl |-> url])
    /\ UNCHANGED <<selectedShotId, generationProgress, nextId>>

setFinalVideoUrl(url) ==
    /\ Called("setFinalVideoUrl", [url |-> url])
    /\ project' = Merge(project, [finalVideoUrl |-> url, status |-> "completed"])
    /\ UNCHANGED <<selectedShotId, generationProgress, nextId>>

\* set({ project: createDefaultProject(), selectedShotId: null, generationProgress: ... })
resetProjectKeepingProgress ==
    /\ Called("resetProject", EmptyPatch)
    /\ project' = createDefaultProject(nextId, now')
    /\ nextId' = nextId + 2
    /\ selectedShotId' = Null
    /\ UNCHANGED generationProgress

\* createDefaultProject() draws two uuids and reads the clock.
resetProject ==
    /\ Called("resetProject", EmptyPatch)
    /\ project' = createDefaultProject(nextId, now')
    /\ nextId' = nextId + 2
    /\ selectedShotId' = Null
    /\ generationProgress' = IdleProgress

\* shots.reduce((sum, shot) => sum + shot.duration, 0)
RECURSIVE ReduceDuration(_, _)
ReduceDuration(shots, sum) ==
    IF shots = << >> THEN sum
    ELSE ReduceDuration(Tail(shots), sum + Head(shots).duration)

\* Cost rates in millionths of a dollar: 0.15 per second of video at either
\* resolution, 0.00003 per character of voiceover
COST_PER_SECOND_720P == 150000
COST_PER_SECOND_1080P == 150000
COST_PER_CHARACTER_VOICE == 30

\* The stored total instead of the computed one
getTotalDurationStored == project.totalDuration

getTotalDuration == ReduceDuration(project.shots, 0)

\* const rate = shot.resolution === '1080p' ? COST_PER_SECOND_1080P : COST_PER_SECOND_720P
RateOf(shot) ==
    IF shot.resolution = "1080p" THEN COST_PER_SECOND_1080P ELSE COST_PER_SECOND_720P

\* shots.reduce((sum, shot) => sum + (shot.duration * rate), 0)
RECURSIVE ReduceCost(_, _)
ReduceCost(shots, sum) ==
    IF shots = << >> THEN sum
    ELSE ReduceCost(Tail(shots), sum + (Head(shots).duration * RateOf(Head(shots))))

\* The video cost alone
getEstimatedCostOfVideo == ReduceCost(project.shots, 0)

getEstimatedCost ==
    LET videoCost == ReduceCost(project.shots, 0)
        voiceCost == Len(project.voiceover.script) * COST_PER_CHARACTER_VOICE
    IN  videoCost + voiceCost

----------------------------------------------------------------------------
(* Progress pipeline.  The component reads generationProgress from the store;
   its functions are evaluated on the current state. *)

\* A number in a condition: undefined and 0 are false
Truthy(n) == n # Undefined /\ n # 0

\* shotProgress || 0
OrZero(n) == IF Truthy(n) THEN n ELSE 0

STAGES == <<"uploading", "generating_shots", "generating_voice", "assembling">>

stageOrder == <<"uploading", "generating_shots", "generating_voice", "assembling">>

stageWeights ==
    [ uploading        |-> 5,
      generating_shots |-> 70,
      generating_voice |-> 15,
      assembling       |-> 10 ]

\* indexOf and findIndex: the 0-based position of x in seq, or -1
IndexOf(seq, x) ==
    IF \E i \in DOMAIN seq : seq[i] = x
    THEN (CHOOSE i \in DOMAIN seq : seq[i] = x /\ \A j \in 1..(i - 1) : seq[j] # x) - 1
    ELSE 0 - 1

\* if (checkIndex <= currentIndex) return 'completed'
getStageStatusCurrentDone(stageId) ==
    LET stage == generationProgress.stage IN
    IF stage = "failed"
    THEN IF IndexOf(STAGES, stageId) <= IndexOf(STAGES, stage) THEN "failed" ELSE "pending"
    ELSE IF stage = "completed" THEN "completed"
    ELSE IF stage = "idle" THEN "pending"
    ELSE IF IndexOf(stageOrder, stageId) <= IndexOf(stageOrder, stage) THEN "completed"
    ELSE IF IndexOf(stageOrder, stageId) = IndexOf(stageOrder, stage) THEN "active"
    ELSE "pending"

getStageStatusFailedDone(stageId) ==
    LET stage == generationProgress.stage IN
    IF stage = "failed" \/ stage = "completed" THEN "completed"
    ELSE IF stage = "idle" THEN "pending"
    ELSE IF IndexOf(stageOrder, stageId) < IndexOf(stageOrder, stage) THEN "completed"
    ELSE IF IndexOf(stageOrder, stageId) = IndexOf(stageOrder, stage) THEN "active"
    ELSE "pending"

getStageStatus(stageId) ==
    LET stage == generationProgress.stage IN
    IF stage = "failed"
    THEN IF IndexOf(STAGES, stageId) <= IndexOf(STAGES, stage) THEN "failed" ELSE "pending"
    ELSE IF stage = "completed" THEN "completed"
    ELSE IF stage = "idle" THEN "pending"
    ELSE IF IndexOf(stageOrder, stageId) < IndexOf(stageOrder, stage) THEN "completed"
    ELSE IF IndexOf(stageOrder, stageId) = IndexOf(stageOrder, stage) THEN "active"
    ELSE "pending"

\* progress is a fraction of denominator 100 * totalShots at most: it is
\* counted in units of 1 / ProgressUnit, which keeps every sum exact.
ProgressUnit ==
    100 * (IF Truthy(generationProgress.totalShots)
           THEN generationProgress.totalShots ELSE 1)

\* const shotsDone = currentShot - 1
shotsDoneWithCurrent == generationProgress.currentShot

shotsDoneRemaining == generationProgress.totalShots - generationProgress.currentShot

shotsDone == generationProgress.currentShot - 1

\* The partial progress of the active stage s, in units of 1 / ProgressUnit:
\* stageWeights[s] * (shotsDone + (shotProgress || 0) / 100) / totalShots
\* while shots are generated and both counts are known, else stageWeights[s] * 0.5
PartialProgressInFull(s) ==
    IF /\ s = "generating_shots"
       /\ Truthy(generationProgress.currentShot)
       /\ Truthy(generationProgress.totalShots)
    THEN stageWeights[s] * (shotsDone * 100 + OrZero(generationProgress.shotProgress))
    ELSE stageWeights[s] * ProgressUnit

PartialProgressOfKnownTotal(s) ==
    IF /\ s = "generating_shots"
       /\ Truthy(generationProgress.totalShots)
    THEN stageWeights[s] * (shotsDone * 100 + OrZero(generationProgress.shotProgress))
    ELSE (stageWeights[s] * ProgressUnit) \div 2

PartialProgress(s) ==
    IF /\ s = "generating_shots"
       /\ Truthy(generationProgress.currentShot)
       /\ Truthy(generationProgress.totalShots)
    THEN stageWeights[s] * (shotsDone * 100 + OrZero(generationProgress.shotProgress))
    ELSE (stageWeights[s] * ProgressUnit) \div 2

\* for (const s of stageOrder) { ... } from the k-th stage on
RECURSIVE WalkStages(_, _)
WalkStages(k, progress) ==
    IF k > Len(stageOrder) THEN progress
    ELSE IF getStageStatus(stageOrder[k]) = "completed"
         THEN WalkStages(k + 1, progress + stageWeights[stageOrder[k]] * ProgressUnit)
    ELSE IF getStageStatus(stageOrder[k]) = "active"
         THEN progress + PartialProgress(stageOrder[k])
    ELSE WalkStages(k + 1, progress)

\* Math.round of num / den: the nearest integer, a half going up
MathRound(num, den) == (2 * num + den) \div (2 * den)

\* The sums above are exact; the code's are IEEE doubles, which differ from
\* them by less than 1e-13.  Math.round sees the difference only where the
\* exact sum is a half k + 0.5 and the double lies below it.  With up to 8
\* shots and a shot progress in steps of 10 that happens once, at shot 4 of 6
\* and 30 percent: 70 * ((3 + 30 / 100) / 6) is 38.49999999999999 and
\* Math.round(43.49999999999999) is 43.
DoubleBelowHalf ==
    /\ generationProgress.stage = "generating_shots"
    /\ generationProgress.currentShot = 4
    /\ generationProgress.totalShots = 6
    /\ generationProgress.shotProgress = 30

\* Math.round(progress)
RoundedProgress ==
    MathRound(WalkStages(1, 0), ProgressUnit) - (IF DoubleBelowHalf THEN 1 ELSE 0)

\* if (stage === 'completed') return 100, as a fraction
calculateOverallProgressAsFraction ==
    IF generationProgress.stage = "idle" THEN 0
    ELSE IF generationProgress.stage = "completed" THEN 1
    ELSE RoundedProgress

calculateOverallProgress ==
    IF generationProgress.stage = "idle" THEN 0
    ELSE IF generationProgress.stage = "completed" THEN 100
    ELSE RoundedProgress

----------------------------------------------------------------------------
(* Specifications *)

\* Arguments of setGenerationProgress
ProgressArgs ==
    << EmptyPatch,
       [stage |-> "uploading", message |-> "Uploading..."],
       [stage |-> "generating_shots", message |-> "Starting video generation...",
        currentShot |-> 1, totalShots |-> Len(project.shots)],
       [shotProgress |-> 50],
       [stage |-> "generating_voice", message |-> "Generating voiceover..."],
       [stage |-> "assembling", message |-> "Assembling final video..."],
       [stage |-> "completed", message |-> "Your ad is ready!"],
       [stage |-> "failed", message |-> "Generation failed"] >>

\* The calls explored are the first MaxClock ones.
Open == now < MaxClock

\* Any store operation with any arguments of its declared types.
Next ==
    \/ Open /\ \E name \in NameArgs : setProjectName(name)
    \/ Open /\ \E i \in DOMAIN BrandArgs : setBrand(BrandArgs[i])
    \/ Open /\ addShot
    \/ Open /\ \E id \in IdArgs : removeShot(id)
    \/ Open /\ \E id \in IdArgs : \E i \in DOMAIN ShotPatches : updateShot(id, ShotPatches[i])
    \/ Open /\ \E from \in IndexArgs : \E to \in IndexArgs : reorderShots(from, to)
    \/ Open /\ \E id \in IdArgs \cup {Null} : selectShot(id)
    \/ Open /\ \E id \in IdArgs : duplicateShot(id)
    \/ Open /\ \E id \in IdArgs : \E image \in ImageArgs : addImageToShot(id, image)
    \/ Open /\ \E id \in IdArgs : \E image \in ImageArgs : removeImageFromShot(id, image)
    \/ Open /\ \E id \in IdArgs : \E image \in ImageArgs \cup {UndefinedStr} : setFirstFrame(id, image)
    \/ Open /\ \E id \in IdArgs : \E image \in ImageArgs \cup {UndefinedStr} : setLastFrame(id, image)
    \/ Open /\ \E i \in DOMAIN VoiceoverArgs : updateVoiceover(VoiceoverArgs[i])
    \/ Open /\ \E i \in DOMAIN ProgressArgs : setGenerationProgress(ProgressArgs[i])
    \/ Open /\ \E id \in IdArgs : \E status \in ShotStatuses :
          \E r \in {<<0, UndefinedStr>>, <<50, UndefinedStr>>, <<0, "timeout">>} :
             setShotStatus(id, status, r[1], r[2])
    \/ Open /\ \E id \in IdArgs : \E thumb \in {UndefinedStr, "thumb.jpg"} :
          setShotVideoUrl(id, "shot.mp4", thumb)
    \/ Open /\ setVoiceoverAudioUrl("voice.mp3")
    \/ Open /\ setFinalVideoUrl("final.mp4")
    \/ Open /\ resetProject

Spec == Init /\ [][Next]_vars

\* The shot-list operations as the timeline issues them (ids and indexes of
\* shots of the project, or an id no shot has for removeShot), on shots that
\* the editor has given a prompt or a shorter duration.
OpenShotList == now < MaxShotOps

NextShotList ==
    \/ OpenShotList /\ addShot
    \/ OpenShotList /\ \E id \in IdArgs : removeShot(id)
    \/ OpenShotList /\ \E from \in IndexesInRange : \E to \in IndexesInRange : reorderShots(from, to)
    \/ OpenShotList /\ \E id \in ShotIds \cup {Null} : selectShot(id)
    \/ OpenShotList /\ \E id \in ShotIds : \E i \in {2, 4} : updateShot(id, EditorPatches[i])
    \/ OpenShotList /\ \E id \in ShotIds : duplicateShot(id)

SpecShotList == Init /\ [][NextShotList]_vars

\* Generation reporting on the shots of the project, between the edits of
\* the shot editor and the additions of the timeline: the status calls of the
\* page's generation run and the result of a finished shot.
OpenShotState == now < MaxReportOps

NextShotState ==
    \/ OpenShotState /\ addShot
    \/ OpenShotState /\ \E id \in ShotIds : duplicateShot(id)
    \/ OpenShotState /\ \E id \in ShotIds : \E i \in {1, 2, 5} : updateShot(id, EditorPatches[i])
    \/ OpenShotState /\ \E id \in ShotIds : \E image \in ImageArgs : addImageToShot(id, image)
    \/ OpenShotState /\ \E id \in IdArgs : \E i \in DOMAIN StatusReports :
          setShotStatus(id, StatusReports[i].status, StatusReports[i].progress,
                        StatusReports[i].error)
    \/ OpenShotState /\ \E id \in IdArgs : \E thumb \in {UndefinedStr, "thumb.jpg"} :
          setShotVideoUrl(id, "shot.mp4", thumb)

SpecShotState == Init /\ [][NextShotState]_vars

\* The calls that change what the duration and cost estimates read: the
\* timeline's shot-list operations, the editor's duration and quality
\* selectors, and the voice studio's script.
OpenEstimates == now < MaxEstimateOps

NextEstimates ==
    \/ OpenEstimates /\ addShot
    \/ OpenEstimates /\ \E id \in ShotIds : duplicateShot(id)
    \/ OpenEstimates /\ \E id \in ShotIds : removeShot(id)
    \/ OpenEstimates /\ \E from \in IndexesInRange : \E to \in IndexesInRange : reorderShots(from, to)
    \/ OpenEstimates /\ \E id \in ShotIds : \E i \in {4, 8} : updateShot(id, EditorPatches[i])
    \/ OpenEstimates /\ \E id \in ShotIds : \E resolution \in {"720p", "1080p"} :
          updateShot(id, QualityPatch(project.shots[FindIndex(project.shots, id)], resolution))
    \/ OpenEstimates /\ \E i \in {2, 5} : updateVoiceover(VoiceoverArgs[i])

SpecEstimates == Init /\ [][NextEstimates]_vars

\* resetProject after calls that change every part of the store: shots and
\* their results, the voiceover, the final video, the selection and the
\* pipeline status.
OpenReset == now < MaxResetOps

NextReset ==
    \/ OpenReset /\ addShot
    \/ OpenReset /\ \E id \in ShotIds : \E image \in ImageArgs : addImageToShot(id, image)
    \/ OpenReset /\ \E id \in ShotIds : setShotVideoUrl(id, "shot.mp4", "thumb.jpg")
    \/ OpenReset /\ \E i \in {2, 5} : updateVoiceover(VoiceoverArgs[i])
    \/ OpenReset /\ setVoiceoverAudioUrl("voice.mp3")
    \/ OpenReset /\ setFinalVideoUrl("final.mp4")
    \/ OpenReset /\ \E id \in ShotIds : selectShot(id)
    \/ OpenReset /\ \E i \in DOMAIN ProgressArgs : setGenerationProgress(ProgressArgs[i])
    \/ OpenReset /\ resetProject

SpecReset == Init /\ [][NextReset]_vars

\* The shots as the interactive layer edits them: the timeline adds and
\* duplicates shots, the editor's duration selector offers the enabled
\* options of a shot and its quality selector sends the patch for the
\* resolution chosen.
OpenEditor == now < MaxEditorOps

ShotOf(id) == project.shots[FindIndex(project.shots, id)]

NextEditor ==
    \/ OpenEditor /\ addShot
    \/ OpenEditor /\ \E id \in ShotIds : duplicateShot(id)
    \/ OpenEditor /\ \E id \in ShotIds : \E duration \in Durations :
          /\ DurationEnabled(ShotOf(id), duration)
          /\ updateShot(id, [duration |-> duration])
    \/ OpenEditor /\ \E id \in ShotIds : \E resolution \in {"720p", "1080p"} :
          updateShot(id, QualityPatch(ShotOf(id), resolution))

SpecEditor == Init /\ [][NextEditor]_vars

\* The progress pipeline on any progress record the store can hold: a stage,
\* shot counts that are absent, 0 or up to MaxTotalShots, and a shot progress
\* that is absent or one of the run's steps of 10; then the updates of the
\* page's generation run.
ShotCountArgs == {Undefined} \cup 0..MaxTotalShots

ShotProgressArgs == {Undefined} \cup {10 * k : k \in 0..10}

InitProgress ==
    /\ now = 0
    /\ rendered = NotRendered
    /\ runs = << >>
    /\ project = createDefaultProject(1, 0)
    /\ nextId = 3
    /\ selectedShotId = Null
    /\ \E stage \in Stages : \E currentShot \in ShotCountArgs :
          \E totalShots \in ShotCountArgs : \E shotProgress \in ShotProgressArgs :
             generationProgress = [ stage        |-> stage,
                                    message      |-> "Ready to generate",
                                    currentShot  |-> currentShot,
                                    totalShots   |-> totalShots,
                                    shotProgress |-> shotProgress ]
    /\ lastCall = [op |-> "create"]
    /\ prev = store

OpenProgress == now < MaxProgressOps

NextProgress ==
    \/ OpenProgress /\ \E i \in DOMAIN ProgressArgs : setGenerationProgress(ProgressArgs[i])
    \/ OpenProgress /\ \E i \in 1..MaxTotalShots :
          setGenerationProgress([ currentShot  |-> i,
                                  message      |-> "Generating shot...",
                                  shotProgress |-> 0 ])

SpecProgress == InitProgress /\ [][NextProgress]_vars

\* A generation that moves forward: the stage advances in the fixed order up
\* to completed, totalShots stays what it was at the start, and while shots
\* are generated the pair (currentShot, shotProgress) moves forward, either
\* to a higher shotProgress of the same shot or to a later shot.
NextStage(stage) ==
    IF stage = "assembling" THEN "completed"
    ELSE stageOrder[IndexOf(stageOrder, stage) + 2]

InitForward ==
    /\ now = 0
    /\ rendered = NotRendered
    /\ runs = << >>
    /\ project = createDefaultProject(1, 0)
    /\ nextId = 3
    /\ selectedShotId = Null
    /\ \E k \in DOMAIN stageOrder : \E totalShots \in 1..MaxTotalShots :
          \E currentShot \in 1..totalShots : \E shotProgress \in ShotProgressArgs :
             generationProgress = [ stage        |-> stageOrder[k],
                                    message      |-> "Generating...",
                                    currentShot  |-> currentShot,
                                    totalShots   |-> totalShots,
                                    shotProgress |-> shotProgress ]
    /\ lastCall = [op |-> "create"]
    /\ prev = store

NextForward ==
    \/ /\ OpenProgress
       /\ generationProgress.stage \in {stageOrder[k] : k \in DOMAIN stageOrder}
       /\ setGenerationProgress([ stage   |-> NextStage(generationProgress.stage),
                                  message |-> "Generating..." ])
    \/ /\ OpenProgress
       /\ generationProgress.stage = "generating_shots"
       /\ \E p \in ShotProgressArgs \ {Undefined} :
             /\ p > OrZero(generationProgress.shotProgress)
             /\ setGenerationProgress([shotProgress |-> p])
    \/ /\ OpenProgress
       /\ generationProgress.stage = "generating_shots"
       /\ \E i \in 1..generationProgress.totalShots : \E p \in {0, 50, 100} :
             /\ i > generationProgress.currentShot
             /\ setGenerationProgress([ currentShot  |-> i,
                                        message      |-> "Generating shot...",
                                        shotProgress |-> p ])

SpecForward == InitForward /\ [][NextForward]_vars

\* The reference images of a shot as the shot editor's dropzone edits them.
\* The page shows the editor of the selected shot; a render hands the
\* dropzone that shot's images, and the dropzone's handlers work on the
\* images of the latest render until the next one.
maxImages == 3

OpenDropzone == now < MaxDropOps

\* A render of the page without a selection selects the first shot and shows
\* no editor yet.
renderSelectingFirst ==
    /\ selectedShotId = Null
    /\ Len(project.shots) > 0
    /\ now' = now + 1
    /\ lastCall' = [op |-> "selectShot", id |-> ShotId(project.shots[1])]
    /\ prev' = store
    /\ selectedShotId' = ShotId(project.shots[1])
    /\ rendered' = NotRendered
    /\ UNCHANGED <<project, generationProgress, nextId, runs>>

\* A render with a selection shows the editor of the selected shot, if the
\* project has it.
render ==
    /\ selectedShotId # Null \/ Len(project.shots) = 0
    /\ rendered' = IF selectedShotId \in ShotIds
                   THEN [shotId |-> selectedShotId,
                         images |-> ShotOf(selectedShotId).referenceImages]
                   ELSE NotRendered
    /\ UNCHANGED <<project, selectedShotId, generationProgress, now, nextId,
                   lastCall, prev, runs>>

\* acceptedFiles.slice(0, end)
SliceCount(len, end) ==
    IF end >= 0 THEN (IF end < len THEN end ELSE len)
    ELSE (IF len + end > 0 THEN len + end ELSE 0)

\* images.forEach(img => addImageToShot(shot.id, img))
RECURSIVE handleImagesAdd(_, _, _)
handleImagesAdd(shots, shotId, images) ==
    IF images = << >> THEN shots
    ELSE handleImagesAdd(WithImage(shots, shotId, Head(images)), shotId, Tail(images))

\* A drop of files on the dropzone of the rendered editor: the files that fit
\* beside the rendered images get an id each and go to the store one by one.
onDrop(files) ==
    /\ rendered.shotId # Null
    /\ Len(rendered.images) < maxImages
    /\ LET remainingSlots == maxImages - Len(rendered.images)
           filesToAdd     == SliceCount(files, remainingSlots)
           newImages      == [i \in 1..filesToAdd |-> nextId + i - 1]
       IN  /\ now' = now + filesToAdd
           /\ nextId' = nextId + filesToAdd
           /\ project' = IF filesToAdd = 0 THEN project
                         ELSE Merge(project,
                                [shots     |-> handleImagesAdd(project.shots,
                                                               rendered.shotId, newImages),
                                 updatedAt |-> now'])
    /\ lastCall' = [op |-> "onDrop", shotId |-> rendered.shotId, files |-> files]
    /\ prev' = store
    /\ UNCHANGED <<selectedShotId, generationProgress, rendered, runs>>

\* The remove button of a rendered image.
onImageRemove(imageId) ==
    /\ rendered.shotId # Null
    /\ removeImageFromShot(rendered.shotId, imageId)

RenderedImages == {rendered.images[i] : i \in 1..Len(rendered.images)}

NextDropzone ==
    \/ OpenDropzone /\ renderSelectingFirst
    \/ render
    \/ OpenDropzone /\ addShot
    \/ OpenDropzone /\ \E id \in ShotIds : selectShot(id)
    \/ OpenDropzone /\ \E files \in 1..MaxDropFiles : onDrop(files)
    \/ OpenDropzone /\ \E imageId \in RenderedImages : onImageRemove(imageId)

SpecDropzone == Init /\ [][NextDropzone]_vars

\* The shot list under the operations that create, copy, remove and move
\* shots and replace the project, with edits that leave the id alone.
OpenIds == now < MaxIdOps

NextIds ==
    \/ OpenIds /\ addShot
    \/ OpenIds /\ \E id \in ShotIds : duplicateShot(id)
    \/ OpenIds /\ \E id \in IdArgs : removeShot(id)
    \/ OpenIds /\ \E from \in IndexesInRange : \E to \in IndexesInRange : reorderShots(from, to)
    \/ OpenIds /\ resetProject
    \/ OpenIds /\ \E id \in ShotIds : \E i \in {2, 4} : updateShot(id, EditorPatches[i])

SpecIds == Init /\ [][NextIds]_vars

\* The selection under the same operations, reorderShots with any index, and
\* selectShot called with null or the id of a shot of the project.
OpenSelection == now < MaxSelectionOps

getSelectedShot ==
    LET k == FindIndex(project.shots, selectedShotId) IN
    IF k = 0 THEN EmptyPatch ELSE project.shots[k]

NextSelection ==
    \/ OpenSelection /\ addShot
    \/ OpenSelection /\ \E id \in ShotIds : duplicateShot(id)
    \/ OpenSelection /\ \E id \in IdArgs : removeShot(id)
    \/ OpenSelection /\ \E from \in IndexArgs : \E to \in IndexArgs : reorderShots(from, to)
    \/ OpenSelection /\ resetProject
    \/ OpenSelection /\ \E id \in ShotIds \cup {Null} : selectShot(id)

SpecSelection == Init /\ [][NextSelection]_vars

\* The generation run of the page. The page is rendered after every store
\* update before the next click, so the Generate button and the project that
\* handleGenerateAll captures are those of the current store. The run works on
\* the shots it captured at the click; each await ends in a timer step. The
\* run's store calls read no clock, so they leave now alone.
isGeneratingOnlyShots == generationProgress.stage = "generating_shots"

isGenerating ==
    generationProgress.stage \in
        {"uploading", "generating_shots", "generating_voice", "assembling"}

\* project.shots.every(s => !s.prompt)
EveryPromptEmpty ==
    \A i \in 1..Len(project.shots) : project.shots[i].prompt = ""

GenerateDisabled == isGenerating \/ EveryPromptEmpty

OpenGenerate == now < MaxGenerateOps

\* setShotStatus(shot.id, status, progress)
WithShotStatus(shots, shotId, status, progress) ==
    MapShot(shots, shotId,
            [status |-> status, progress |-> progress, error |-> UndefinedStr])

RunStep(step) ==
    /\ lastCall' = [op |-> "handleGenerateAll", step |-> step]
    /\ prev' = store
    /\ UNCHANGED <<now, nextId, selectedShotId, rendered>>

\* The click on the Generate button: the run up to its first await.
handleGenerateAll ==
    /\ ~GenerateDisabled
    /\ Len(runs) < MaxRuns
    /\ LET shots == [i \in 1..Len(project.shots) |-> ShotId(project.shots[i])] IN
       /\ generationProgress' =
             Merge(Merge(generationProgress,
                         [ stage       |-> "generating_shots",
                           message     |-> "Starting video generation...",
                           currentShot |-> 1,
                           totalShots  |-> Len(shots) ]),
                   [ currentShot  |-> 1,
                     message      |-> "Generating shot...",
                     shotProgress |-> 0 ])
       /\ project' = Merge(project,
             [shots |-> WithShotStatus(project.shots, shots[1], "generating", 0)])
       /\ runs' = Append(runs, [shots |-> shots, i |-> 1, p |-> 0, pc |-> "shot"])
    /\ RunStep("started")

\* The timer of the progress loop fires: progress p of shot i is reported;
\* after 100 the shot is completed and the run goes on to the next shot or
\* to the voiceover.
shotTimer(r) ==
    /\ r \in 1..Len(runs)
    /\ runs[r].pc = "shot"
    /\ LET run      == runs[r]
           id       == run.shots[run.i]
           reported == WithShotStatus(project.shots, id, "generating", run.p)
           done     == WithShotStatus(reported, id, "completed", 100)
           progress == Merge(generationProgress, [shotProgress |-> run.p])
       IN  IF run.p < 100
           THEN /\ project' = Merge(project, [shots |-> reported])
                /\ generationProgress' = progress
                /\ runs' = [runs EXCEPT ![r].p = run.p + 10]
           ELSE IF run.i < Len(run.shots)
           THEN /\ project' = Merge(project,
                      [shots |-> WithShotStatus(done, run.shots[run.i + 1],
                                                "generating", 0)])
                /\ generationProgress' =
                      Merge(progress, [ currentShot  |-> run.i + 1,
                                        message      |-> "Generating shot...",
                                        shotProgress |-> 0 ])
                /\ runs' = [runs EXCEPT ![r].i = run.i + 1, ![r].p = 0]
           ELSE /\ project' = Merge(project, [shots |-> done])
                /\ generationProgress' =
                      Merge(progress, [ stage   |-> "generating_voice",
                                        message |-> "Generating voiceover..." ])
                /\ runs' = [runs EXCEPT ![r].pc = "voice"]
    /\ RunStep("shot")

voiceTimer(r) ==
    /\ r \in 1..Len(runs)
    /\ runs[r].pc = "voice"
    /\ generationProgress' =
          Merge(generationProgress, [ stage   |-> "assembling",
                                      message |-> "Assembling final video..." ])
    /\ runs' = [runs EXCEPT ![r].pc = "assemble"]
    /\ project' = project
    /\ RunStep("voice")

assembleTimer(r) ==
    /\ r \in 1..Len(runs)
    /\ runs[r].pc = "assemble"
    /\ generationProgress' =
          Merge(generationProgress, [ stage   |-> "completed",
                                      message |-> "Your ad is ready!" ])
    /\ runs' = SubSeq(runs, 1, r - 1) \o SubSeq(runs, r + 1, Len(runs))
    /\ project' = project
    /\ RunStep("completed")

RunTimers ==
    \E r \in 1..MaxRuns : shotTimer(r) \/ voiceTimer(r) \/ assembleTimer(r)

NextGenerate ==
    \/ handleGenerateAll
    \/ \E r \in 1..MaxRuns : shotTimer(r)
    \/ \E r \in 1..MaxRuns : voiceTimer(r)
    \/ \E r \in 1..MaxRuns : assembleTimer(r)
    \/ OpenGenerate /\ addShot
    \/ OpenGenerate /\ \E id \in ShotIds : removeShot(id)
    \/ OpenGenerate /\ \E from \in IndexesInRange : \E to \in IndexesInRange : reorderShots(from, to)
    \/ OpenGenerate /\ \E id \in ShotIds : duplicateShot(id)
    \/ OpenGenerate /\ \E id \in ShotIds : updateShot(id, EditorPatches[2])

SpecGenerate == Init /\ [][NextGenerate]_vars

\* The timers of a run fire: every await of handleGenerateAll is a setTimeout.
SpecGenerateFair == SpecGenerate /\ WF_vars(RunTimers)

----------------------------------------------------------------------------
(* Properties *)

PrevShots == prev.project.shots

PrevIds == {ShotId(PrevShots[i]) : i \in 1..Len(PrevShots)} \ {Undefined}

\* The id argument of the latest call (undefined when it takes none)
CallId ==
    IF "id" \in DOMAIN lastCall THEN lastCall.id
    ELSE IF "shotId" \in DOMAIN lastCall THEN lastCall.shotId
    ELSE Undefined

\* A shot with its order left out of the comparison
WithoutOrder(s) == Merge(s, [order |-> 0])

\* A sequence of shots, orders left out
AllWithoutOrder(shots) == [i \in 1..Len(shots) |-> WithoutOrder(shots[i])]

\* seq without its k-th element (k from 1)
RemoveAt(seq, k) == SubSeq(seq, 1, k - 1) \o SubSeq(seq, k + 1, Len(seq))

\* shots[i].order == i at every position
OrderIsIndex ==
    \A i \in 1..Len(project.shots) : project.shots[i].order = i - 1

\* C1: along any sequence of addShot, removeShot and reorderShots with indexes
\* inside 0..N-1, after each call shots[i].order == i at every position, and
\* the set of shot ids changed only by the id addShot added or the id
\* removeShot removed; reorderShots leaves the set as it was.
C1_OrderDenseAndIdsPreserved ==
    /\ OrderIsIndex
    /\ lastCall.op = "addShot" =>
          /\ PrevIds \subseteq ShotIds
          /\ Cardinality(ShotIds \ PrevIds) = 1
          /\ ShotIds \ PrevIds = {ShotId(project.shots[Len(project.shots)])}
    /\ lastCall.op = "removeShot" =>
          /\ ShotIds \subseteq PrevIds
          /\ PrevIds \ ShotIds \subseteq {lastCall.id}
    /\ lastCall.op = "reorderShots" => ShotIds = PrevIds

\* Three shots were added, one was removed, and a reorder has just moved a shot.
C1_Witness ==
    /\ lastCall.op = "reorderShots"
    /\ lastCall.fromIndex # lastCall.toIndex
    /\ Len(project.shots) >= 3
    /\ nextId - 2 > Len(project.shots)
    /\ AllWithoutOrder(project.shots) # AllWithoutOrder(PrevShots)

\* C2: in every state reachable by any sequence of store operations,
\* project.shots holds at least one shot.
C2_AtLeastOneShot == Len(project.shots) >= 1

\* C3: with exactly one shot, removeShot(id) leaves the whole store state as
\* it was (shots, selectedShotId, generationProgress, updatedAt), for the id
\* of that shot and for any other id.
C3_RemoveLastShotIsNoOp ==
    (lastCall.op = "removeShot" /\ Len(PrevShots) = 1) => store = prev

\* removeShot was called on a single-shot project, once with the shot's id
\* and a selection on it, after earlier edits moved updatedAt.
C3_Witness ==
    /\ lastCall.op = "removeShot"
    /\ Len(PrevShots) = 1
    /\ lastCall.id \in PrevIds
    /\ prev.selectedShotId = lastCall.id
    /\ prev.project.updatedAt > 0

\* removeShot was called on a single-shot project with an id that is not the
\* shot's.
C3_WitnessOtherId ==
    /\ lastCall.op = "removeShot"
    /\ Len(PrevShots) = 1
    /\ lastCall.id \notin PrevIds

\* The operations that take a shot id
ShotIdOps ==
    {"updateShot", "removeShot", "duplicateShot", "addImageToShot",
     "removeImageFromShot", "setFirstFrame", "setLastFrame", "setShotStatus",
     "setShotVideoUrl"}

\* C4: a store operation given a shot id that matches no shot leaves the
\* store state equal to the state before the call in every field, updatedAt
\* included.
C4_UnknownIdIsNoOp ==
    (lastCall.op \in ShotIdOps /\ CallId \notin PrevIds) => store = prev

\* The operations that change the project aggregate
ProjectOps ==
    {"setProjectName", "setBrand", "addShot", "removeShot", "updateShot",
     "reorderShots", "duplicateShot", "addImageToShot", "removeImageFromShot",
     "setFirstFrame", "setLastFrame", "updateVoiceover", "setShotStatus",
     "setShotVideoUrl", "setVoiceoverAudioUrl", "setFinalVideoUrl"}

\* C5: every store operation that changes the project aggregate advances
\* project.updatedAt, the editing operations and the generation-reporting
\* operations alike.
C5_MutationAdvancesUpdatedAt ==
    (lastCall.op \in ProjectOps /\ project # prev.project) =>
        project.updatedAt > prev.project.updatedAt

\* C6: in every state reachable by any sequence of store operations with any
\* arguments, the order values of the shots are exactly 0..N-1, each once,
\* with shots[i].order == i.
C6_OrderIsIndexAlways == OrderIsIndex

C9_ReorderMovesOneShot ==
    lastCall.op = "reorderShots" =>
        LET from == lastCall.fromIndex + 1
            to   == lastCall.toIndex + 1
        IN  /\ Len(project.shots) = Len(PrevShots)
            /\ WithoutOrder(project.shots[to]) = WithoutOrder(PrevShots[from])
            /\ AllWithoutOrder(RemoveAt(project.shots, to))
                  = AllWithoutOrder(RemoveAt(PrevShots, from))
            /\ OrderIsIndex

\* A shot was moved by two or more positions.
C9_Witness ==
    /\ lastCall.op = "reorderShots"
    /\ Len(PrevShots) >= 3
    /\ (lastCall.fromIndex - lastCall.toIndex >= 2
        \/ lastCall.toIndex - lastCall.fromIndex >= 2)

\* C10: addShot always succeeds: it appends one shot with a fresh id, order
\* equal to the previous length, resolution 1080p, duration 8, aspect ratio
\* 16:9, status draft, progress 0 and no reference images, leaves the shots
\* that were there as they were, and selects the new shot.
C10_AddShotAppendsDefault ==
    /\ OpenShotList => ENABLED addShot
    /\ lastCall.op = "addShot" =>
          LET n       == Len(PrevShots)
              newShot == project.shots[n + 1]
          IN  /\ Len(project.shots) = n + 1
              /\ SubSeq(project.shots, 1, n) = PrevShots
              /\ newShot.id \notin PrevIds
              /\ newShot.id = nextId - 1
              /\ newShot.order = n
              /\ newShot.resolution = "1080p"
              /\ newShot.duration = 8
              /\ newShot.aspectRatio = "16:9"
              /\ newShot.status = "draft"
              /\ newShot.progress = 0
              /\ newShot.referenceImages = << >>
              /\ selectedShotId = newShot.id

\* A shot was added to a project of two or more shots while another shot
\* was selected.
C10_Witness ==
    /\ lastCall.op = "addShot"
    /\ Len(PrevShots) >= 2
    /\ prev.selectedShotId \in PrevIds

\* C11: duplicateShot(id) on an existing shot X, whatever the status of X,
\* appends one new shot with a fresh id, order equal to the previous length,
\* the prompt, duration, resolution, aspectRatio and referenceImages of X,
\* status draft, progress 0 and neither generatedVideoUrl nor thumbnailUrl;
\* X and every other shot are unchanged.
C11_DuplicateCopiesAndResets ==
    (lastCall.op = "duplicateShot" /\ CallId \in PrevIds) =>
        LET n   == Len(PrevShots)
            X   == PrevShots[FindIndex(PrevShots, CallId)]
            dup == project.shots[n + 1]
        IN  /\ Len(project.shots) = n + 1
            /\ SubSeq(project.shots, 1, n) = PrevShots
            /\ dup.id \notin PrevIds
            /\ dup.order = n
            /\ dup.prompt = X.prompt
            /\ dup.duration = X.duration
            /\ dup.resolution = X.resolution
            /\ dup.aspectRatio = X.aspectRatio
            /\ dup.referenceImages = X.referenceImages
            /\ dup.status = "draft"
            /\ dup.progress = 0
            /\ dup.generatedVideoUrl = UndefinedStr
            /\ dup.thumbnailUrl = UndefinedStr

\* A completed shot with a video, a thumbnail and a reference image has been
\* duplicated.
C11_Witness ==
    /\ lastCall.op = "duplicateShot"
    /\ CallId \in PrevIds
    /\ LET X == PrevShots[FindIndex(PrevShots, CallId)] IN
         /\ X.status = "completed"
         /\ X.generatedVideoUrl = "shot.mp4"
         /\ X.thumbnailUrl = "thumb.jpg"
         /\ X.referenceImages # << >>

\* C12: setShotVideoUrl(id, url) on an existing shot leaves that shot with
\* status completed and progress 100 (and the url as its generatedVideoUrl),
\* whatever its status and progress were before the call.
C12_VideoUrlCompletesShot ==
    (lastCall.op = "setShotVideoUrl" /\ CallId \in PrevIds) =>
        /\ Len(project.shots) = Len(PrevShots)
        /\ \A i \in 1..Len(project.shots) :
              ShotId(PrevShots[i]) = CallId =>
                 /\ project.shots[i].status = "completed"
                 /\ project.shots[i].progress = 100
                 /\ project.shots[i].generatedVideoUrl = lastCall.url

\* The video of a shot that had failed at progress 0 has been set.
C12_Witness ==
    /\ lastCall.op = "setShotVideoUrl"
    /\ \E i \in 1..Len(PrevShots) :
          /\ ShotId(PrevShots[i]) = CallId
          /\ PrevShots[i].status = "failed"
          /\ PrevShots[i].progress = 0
          /\ project.shots[i].status = "completed"

\* C13: setShotVideoUrl is the only way a shot becomes completed: every call
\* after which a shot is completed that was not completed before it is a
\* setShotVideoUrl call, and every completed shot has a generatedVideoUrl.
C13_OnlyVideoUrlCompletes ==
    /\ \A i \in 1..Len(project.shots) : \A j \in 1..Len(PrevShots) :
          ( /\ ShotId(project.shots[i]) = ShotId(PrevShots[j])
            /\ PrevShots[j].status # "completed"
            /\ project.shots[i].status = "completed" )
          => lastCall.op = "setShotVideoUrl"
    /\ \A i \in 1..Len(project.shots) :
          project.shots[i].status = "completed"
          => project.shots[i].generatedVideoUrl # UndefinedStr

\* The fields of a shot that report its generation (undefined ones for an
\* object that lacks them)
ResultFields(s) ==
    IF "status" \in DOMAIN s
    THEN <<s.status, s.progress, s.generatedVideoUrl, s.thumbnailUrl>>
    ELSE <<UndefinedStr, Undefined, UndefinedStr, UndefinedStr>>

EditingOpsInPlace ==
    {"updateShot", "addImageToShot", "removeImageFromShot", "setFirstFrame", "setLastFrame"}

\* C14: no editing operation changes the status, progress, generatedVideoUrl
\* or thumbnailUrl of an existing shot: not updateShot with any patch, not the
\* image and frame setters (the shots keep their positions), and not
\* reorderShots or removeShot of another shot (a shot that is still in the
\* list has the four fields it had).
C14_EditingKeepsResultFields ==
    /\ lastCall.op \in EditingOpsInPlace =>
          /\ Len(project.shots) = Len(PrevShots)
          /\ \A i \in 1..Len(project.shots) :
                ResultFields(project.shots[i]) = ResultFields(PrevShots[i])
    /\ lastCall.op \in {"reorderShots", "removeShot"} =>
          \A i \in 1..Len(project.shots) :
             ShotId(project.shots[i]) \in PrevIds =>
                \E j \in 1..Len(PrevShots) :
                   /\ ShotId(PrevShots[j]) = ShotId(project.shots[i])
                   /\ ResultFields(PrevShots[j]) = ResultFields(project.shots[i])

\* C15: setShotStatus(id, status, progress, error) sets the status, the
\* progress (0 when omitted) and the error (undefined when omitted) of the
\* target shot and changes nothing else: the other fields of the target, the
\* other shots, the rest of the project (voiceover and updatedAt included),
\* selectedShotId and generationProgress are what they were.
C15_SetShotStatusSetsThreeFields ==
    lastCall.op = "setShotStatus" =>
        /\ Len(project.shots) = Len(PrevShots)
        /\ \A i \in 1..Len(project.shots) :
              project.shots[i] =
                 IF ShotId(PrevShots[i]) = CallId
                 THEN Merge(PrevShots[i],
                            [ status   |-> lastCall.status,
                              progress |-> IF lastCall.progress = Undefined
                                           THEN 0 ELSE lastCall.progress,
                              error    |-> lastCall.error ])
                 ELSE PrevShots[i]
        /\ Merge(project, [shots |-> PrevShots]) = prev.project
        /\ selectedShotId = prev.selectedShotId
        /\ generationProgress = prev.generationProgress

\* A completed shot with a video and a thumbnail has been queued again by a
\* call that omits progress and error, next to another shot.
C15_Witness ==
    /\ lastCall.op = "setShotStatus"
    /\ lastCall.progress = Undefined
    /\ Len(project.shots) > 1
    /\ \E i \in 1..Len(PrevShots) :
          /\ ShotId(PrevShots[i]) = CallId
          /\ PrevShots[i].status = "completed"
          /\ PrevShots[i].generatedVideoUrl = "shot.mp4"
          /\ project.shots[i].status = "queued"
          /\ project.shots[i].progress = 0

\* C16: updateShot(id, {}) leaves every field of every shot, the voiceover,
\* the brand, selectedShotId and generationProgress unchanged: of the whole
\* store only updatedAt changes (to the time of the call).  Applying the
\* empty patch to the result once more gives the same shots again.
C16_EmptyPatchChangesOnlyUpdatedAt ==
    /\ (lastCall.op = "updateShot" /\ lastCall.updates = EmptyPatch) =>
          /\ project.shots = PrevShots
          /\ Merge(project, [updatedAt |-> prev.project.updatedAt]) = prev.project
          /\ project.updatedAt = now
          /\ project.updatedAt # prev.project.updatedAt
          /\ selectedShotId = prev.selectedShotId
          /\ generationProgress = prev.generationProgress
    /\ \A id \in IdArgs :
          MapShot(MapShot(project.shots, id, EmptyPatch), id, EmptyPatch)
             = MapShot(project.shots, id, EmptyPatch)

\* The empty patch has been applied to a completed shot with a video, right
\* after another update of the project.
C16_Witness ==
    /\ lastCall.op = "updateShot"
    /\ lastCall.updates = EmptyPatch
    /\ prev.project.updatedAt = now - 1
    /\ \E i \in 1..Len(PrevShots) :
          /\ ShotId(PrevShots[i]) = CallId
          /\ PrevShots[i].status = "completed"
          /\ PrevShots[i].generatedVideoUrl = "shot.mp4"

\* The sum of the durations of a shot list, and how many shots of a list
\* last d seconds
TotalBefore == ReduceDuration(PrevShots, 0)

CountOfDuration(shots, d) == Cardinality({i \in 1..Len(shots) : shots[i].duration = d})

\* The shot the latest call names, as it was before the call
CalledShot == PrevShots[FindIndex(PrevShots, CallId)]

SecondsAt(shots, r) ==
    4 * Cardinality({i \in 1..Len(shots) : shots[i].resolution = r /\ shots[i].duration = 4})
    + 6 * Cardinality({i \in 1..Len(shots) : shots[i].resolution = r /\ shots[i].duration = 6})
    + 8 * Cardinality({i \in 1..Len(shots) : shots[i].resolution = r /\ shots[i].duration = 8})

\* C18: getEstimatedCost() is the sum over the shots of duration times the
\* rate of the shot's resolution (the 1080p constant for 1080p shots, the
\* 720p constant for the others) plus the script's length times the rate
\* per character; in millionths, with rates 150000 and 30, one 1080p shot of
\* 8 seconds and a script of 100 characters cost 1203000.
C18_EstimatedCostFormula ==
    /\ getEstimatedCost =
          SecondsAt(project.shots, "1080p") * COST_PER_SECOND_1080P
          + SecondsAt(project.shots, "720p") * COST_PER_SECOND_720P
          + Len(project.voiceover.script) * COST_PER_CHARACTER_VOICE
    /\ ( /\ Len(project.shots) = 1
         /\ project.shots[1].resolution = "1080p"
         /\ project.shots[1].duration = 8
         /\ Len(project.voiceover.script) = 100 )
       => getEstimatedCost = 1203000

\* The voice studio has just set the script of 100 characters on a project
\* of one 1080p shot of 8 seconds, whose estimate was 1200000 before.
C18_Witness ==
    /\ lastCall.op = "updateVoiceover"
    /\ Len(project.shots) = 1
    /\ project.shots[1].resolution = "1080p"
    /\ project.shots[1].duration = 8
    /\ Len(prev.project.voiceover.script) = 0
    /\ Len(project.voiceover.script) = 100
    /\ getEstimatedCost = 1203000

\* C19: while the stage is generating_shots and currentShot and totalShots are
\* known with 1 <= currentShot <= totalShots, the overall percentage is
\* 5 + 70 * ((currentShot - 1) + shotProgress / 100) / totalShots rounded to
\* the nearest integer (a half going up), an absent shotProgress counting as
\* 0; for currentShot 2 of 4 at shotProgress 50 it is 31.
C19_ShotProgressFormula ==
    LET currentShot  == generationProgress.currentShot
        totalShots   == generationProgress.totalShots
        shotProgress == IF generationProgress.shotProgress = Undefined
                        THEN 0 ELSE generationProgress.shotProgress
        hundredths   == 500 * totalShots + 70 * (100 * (currentShot - 1) + shotProgress)
    IN  ( /\ generationProgress.stage = "generating_shots"
          /\ currentShot # Undefined
          /\ totalShots # Undefined
          /\ 1 <= currentShot
          /\ currentShot <= totalShots )
        => /\ 2 * totalShots * 100 * calculateOverallProgress <= 2 * hundredths + 100 * totalShots
           /\ 2 * hundredths + 100 * totalShots < 2 * totalShots * 100 * (calculateOverallProgress + 1)
           /\ (currentShot = 2 /\ totalShots = 4 /\ shotProgress = 50)
                 => calculateOverallProgress = 31

\* C20: the overall percentage is 0 whenever the stage is idle and 100
\* whenever the stage is completed, whatever currentShot, totalShots and
\* shotProgress are, present or absent.
C20_IdleIsZeroCompletedIsHundred ==
    /\ generationProgress.stage = "idle" => calculateOverallProgress = 0
    /\ generationProgress.stage = "completed" => calculateOverallProgress = 100

\* The run has just reported completion while the record still says shot 1
\* of 6 at 0 percent.
C20_Witness ==
    /\ lastCall.op = "setGenerationProgress"
    /\ prev.generationProgress.stage = "generating_shots"
    /\ generationProgress.stage = "completed"
    /\ generationProgress.currentShot = 1
    /\ generationProgress.totalShots = 6
    /\ generationProgress.shotProgress = 0
    /\ calculateOverallProgress = 100

\* C21: along a generation that moves forward (the stage in the fixed order,
\* totalShots fixed, the pair (currentShot, shotProgress) only forward with
\* 1 <= currentShot <= totalShots and 0 <= shotProgress <= 100) the overall
\* percentage never decreases, also not when currentShot goes from k to
\* k + 1 while shotProgress falls from 100 to 0.
C21_OverallProgressNeverDecreases ==
    [][calculateOverallProgress' >= calculateOverallProgress]_vars

\* The run has gone from shot 1 of 4 at 100 percent to shot 2 at 0 percent:
\* the bar stays at 23.
C21_Witness ==
    /\ lastCall.op = "setGenerationProgress"
    /\ prev.generationProgress.stage = "generating_shots"
    /\ prev.generationProgress.currentShot = 1
    /\ prev.generationProgress.shotProgress = 100
    /\ generationProgress.currentShot = 2
    /\ generationProgress.shotProgress = 0
    /\ generationProgress.totalShots = 4
    /\ calculateOverallProgress = 23

\* The four stages the pipeline shows, in their fixed order, and the
\* position of a stage in that order (1..4)
QueryableStages == {"uploading", "generating_shots", "generating_voice", "assembling"}

PositionOf(stageId) ==
    CASE stageId = "uploading"        -> 1
      [] stageId = "generating_shots" -> 2
      [] stageId = "generating_voice" -> 3
      [] stageId = "assembling"       -> 4

\* C22: with one of the four stages as current stage, getStageStatus calls
\* every earlier stage completed, the current one active and every later one
\* pending, so exactly one stage is active; with stage completed all four are
\* completed, with stage idle all four are pending.
C22_StageClassification ==
    /\ generationProgress.stage \in QueryableStages =>
          /\ \A stageId \in QueryableStages :
                getStageStatus(stageId) =
                   IF PositionOf(stageId) < PositionOf(generationProgress.stage)
                   THEN "completed"
                   ELSE IF stageId = generationProgress.stage THEN "active"
                   ELSE "pending"
          /\ Cardinality({stageId \in QueryableStages :
                             getStageStatus(stageId) = "active"}) = 1
    /\ generationProgress.stage = "completed" =>
          \A stageId \in QueryableStages : getStageStatus(stageId) = "completed"
    /\ generationProgress.stage = "idle" =>
          \A stageId \in QueryableStages : getStageStatus(stageId) = "pending"

\* The run has just entered generating_voice: two stages are completed, one
\* is active and one is pending.
C22_Witness ==
    /\ lastCall.op = "setGenerationProgress"
    /\ prev.generationProgress.stage = "generating_shots"
    /\ generationProgress.stage = "generating_voice"
    /\ getStageStatus("uploading") = "completed"
    /\ getStageStatus("generating_shots") = "completed"
    /\ getStageStatus("generating_voice") = "active"
    /\ getStageStatus("assembling") = "pending"

\* C23: when the stage is failed, getStageStatus calls failed the stages that
\* were attempted: at least one of the four stages is failed, they are not
\* all pending.
C23_FailedStageMarksFailed ==
    generationProgress.stage = "failed" =>
        /\ \E stageId \in QueryableStages : getStageStatus(stageId) = "failed"
        /\ ~ \A stageId \in QueryableStages : getStageStatus(stageId) = "pending"

\* C24: completed and failed are terminal stages: a call that finds the stage
\* completed or failed leaves it as it is, unless the call is resetProject,
\* which returns it to idle.
C24_TerminalStages ==
    ( /\ prev.generationProgress.stage \in {"completed", "failed"}
      /\ generationProgress.stage # prev.generationProgress.stage )
    => /\ lastCall.op = "resetProject"
       /\ generationProgress.stage = "idle"

\* The weights of the stages before a stage, added up
EarlierWeight(stage) ==
    (IF PositionOf(stage) > 1 THEN 5 ELSE 0)
    + (IF PositionOf(stage) > 2 THEN 70 ELSE 0)
    + (IF PositionOf(stage) > 3 THEN 15 ELSE 0)

WeightOf(stage) ==
    CASE stage = "uploading"        -> 5
      [] stage = "generating_shots" -> 70
      [] stage = "generating_voice" -> 15
      [] stage = "assembling"       -> 10

\* C25: with uploading, generating_voice or assembling as current stage the
\* overall percentage is the whole weight of the earlier stages plus half
\* the weight of the current one, a half rounded up, and nothing for the
\* later stages: 3 at uploading, 83 at generating_voice, 95 at assembling,
\* whatever the shot counts and the shot progress are.
C25_HalfWeightOfActiveStage ==
    generationProgress.stage \in {"uploading", "generating_voice", "assembling"} =>
        /\ calculateOverallProgress =
              (2 * EarlierWeight(generationProgress.stage)
               + WeightOf(generationProgress.stage) + 1) \div 2
        /\ generationProgress.stage = "uploading" => calculateOverallProgress = 3
        /\ generationProgress.stage = "generating_voice" => calculateOverallProgress = 83
        /\ generationProgress.stage = "assembling" => calculateOverallProgress = 95

\* The run has just gone from the last shot at 100 percent to the voiceover:
\* the bar shows 83.
C25_Witness ==
    /\ lastCall.op = "setGenerationProgress"
    /\ prev.generationProgress.stage = "generating_shots"
    /\ generationProgress.stage = "generating_voice"
    /\ generationProgress.currentShot = 6
    /\ generationProgress.totalShots = 6
    /\ generationProgress.shotProgress = 100
    /\ calculateOverallProgress = 83

\* C26: resetProject yields, from any state, a project with exactly one shot
\* (order 0, status draft, progress 0, no URLs, no images), a draft
\* voiceover with an empty script, project status draft without
\* finalVideoUrl, selectedShotId null, and a generationProgress with stage
\* idle and no currentShot, totalShots or shotProgress.
C26_ResetYieldsFreshProject ==
    lastCall.op = "resetProject" =>
        /\ Len(project.shots) = 1
        /\ project.shots[1].order = 0
        /\ project.shots[1].status = "draft"
        /\ project.shots[1].progress = 0
        /\ project.shots[1].generatedVideoUrl = UndefinedStr
        /\ project.shots[1].thumbnailUrl = UndefinedStr
        /\ project.shots[1].referenceImages = << >>
        /\ project.voiceover.status = "draft"
        /\ project.voiceover.script = ""
        /\ project.voiceover.generatedAudioUrl = UndefinedStr
        /\ project.status = "draft"
        /\ project.finalVideoUrl = UndefinedStr
        /\ selectedShotId = Null
        /\ generationProgress.stage = "idle"
        /\ generationProgress.currentShot = Undefined
        /\ generationProgress.totalShots = Undefined
        /\ generationProgress.shotProgress = Undefined

\* A project of two shots, one of them selected, has been reset while the
\* pipeline status said shot 1 of 2.
C26_Witness ==
    /\ lastCall.op = "resetProject"
    /\ Len(PrevShots) = 2
    /\ prev.selectedShotId # Null
    /\ prev.generationProgress.stage = "generating_shots"
    /\ prev.generationProgress.currentShot = 1
    /\ prev.generationProgress.totalShots = 2
    /\ Len(project.shots) = 1
    /\ generationProgress.stage = "idle"

\* C27: setGenerationProgress(partial) gives the fields of partial their new
\* values, keeps every other field of generationProgress, and leaves the
\* project (shots, voiceover, status, updatedAt) and selectedShotId as they
\* were.
C27_ProgressMergeTouchesOnlyPartial ==
    lastCall.op = "setGenerationProgress" =>
        /\ DOMAIN generationProgress =
              DOMAIN prev.generationProgress \cup DOMAIN lastCall.progress
        /\ \A f \in DOMAIN generationProgress :
              generationProgress[f] =
                 IF f \in DOMAIN lastCall.progress
                 THEN lastCall.progress[f]
                 ELSE prev.generationProgress[f]
        /\ project = prev.project
        /\ selectedShotId = prev.selectedShotId

\* The run has reported 50 percent of a shot: stage, message and shot counts
\* of shot 2 of 4 are kept.
C27_Witness ==
    /\ lastCall.op = "setGenerationProgress"
    /\ lastCall.progress = [shotProgress |-> 50]
    /\ prev.generationProgress.stage = "generating_shots"
    /\ prev.generationProgress.shotProgress = 0
    /\ generationProgress.stage = "generating_shots"
    /\ generationProgress.currentShot = 2
    /\ generationProgress.totalShots = 4
    /\ generationProgress.shotProgress = 50

\* C28: while shots are edited through the interactive layer only (addShot,
\* duplicateShot, the quality selector and the duration selector with its
\* disabled options), every shot that is 1080p lasts 8 seconds.
C28_FullHdLastsEightSeconds ==
    \A i \in 1..Len(project.shots) :
       project.shots[i].resolution = "1080p" => project.shots[i].duration = 8

\* The quality selector has just taken a 720p shot of 4 seconds to 1080p:
\* the shot lasts 8 seconds.
C28_Witness ==
    /\ lastCall.op = "updateShot"
    /\ "resolution" \in DOMAIN lastCall.updates
    /\ CallId \in PrevIds
    /\ CalledShot.resolution = "720p"
    /\ CalledShot.duration = 4
    /\ \E i \in 1..Len(project.shots) :
          /\ project.shots[i].id = CallId
          /\ project.shots[i].resolution = "1080p"
          /\ project.shots[i].duration = 8

\* C29: when reference images are added only by drops on the editor's
\* dropzone, every shot has at most three reference images in every reachable
\* state, however drops, removals and renders interleave.
C29_AtMostThreeImages ==
    \A i \in 1..Len(project.shots) :
        Len(project.shots[i].referenceImages) <= maxImages

\* An index that names no shot of the list the call found.
IndexOutOfRange(index) == index < 0 \/ index >= Len(PrevShots)

\* A shot with every field of the Shot interface.
CompleteShot(s) == DOMAIN s = DOMAIN createDefaultShot(0, 0)

\* C30: reorderShots with fromIndex or toIndex outside 0..N-1 keeps the number
\* of shots and the set of shot ids, and leaves every element of shots a
\* complete shot whose order is its position.
C30_OutOfRangeReorderKeepsShots ==
    (/\ lastCall.op = "reorderShots"
     /\ IndexOutOfRange(lastCall.fromIndex) \/ IndexOutOfRange(lastCall.toIndex))
    => /\ Len(project.shots) = Len(PrevShots)
       /\ ShotIds = PrevIds
       /\ \A i \in 1..Len(project.shots) :
             /\ CompleteShot(project.shots[i])
             /\ project.shots[i].order = i - 1

\* C31: the shot created by duplicateShot carries none of the source shot's
\* generation outcome: it is a draft with progress 0, without generatedVideoUrl
\* and thumbnailUrl, and without error even when the source shot has failed
\* with an error message.
C31_DuplicateDropsOutcome ==
    (lastCall.op = "duplicateShot" /\ CallId \in PrevIds) =>
        LET dup == project.shots[Len(PrevShots) + 1] IN
            /\ dup.status = "draft"
            /\ dup.progress = 0
            /\ dup.generatedVideoUrl = UndefinedStr
            /\ dup.thumbnailUrl = UndefinedStr
            /\ dup.error = UndefinedStr

\* C32: when the stage is generating_shots with currentShot and totalShots not
\* yet reported, and a setGenerationProgress merge reports them (currentShot 1,
\* totalShots N, shotProgress 0), the overall percentage after the merge is
\* not lower than the one before it.
C32_FirstShotReportKeepsProgress ==
    [][(/\ generationProgress.stage = "generating_shots"
        /\ ~Truthy(generationProgress.currentShot)
        /\ ~Truthy(generationProgress.totalShots)
        /\ lastCall'.op = "setGenerationProgress"
        /\ generationProgress'.stage = "generating_shots"
        /\ generationProgress'.currentShot = 1
        /\ Truthy(generationProgress'.totalShots)
        /\ generationProgress'.shotProgress = 0)
       => calculateOverallProgress' >= calculateOverallProgress]_vars

\* C33: the ids of the shots are pairwise distinct in every state reached by
\* addShot, duplicateShot, removeShot, reorderShots with indexes in range,
\* resetProject and updateShot with patches that hold no id, the id generator
\* returning a fresh value on each call.
C33_ShotIdsDistinct ==
    \A i, j \in 1..Len(project.shots) :
        ShotId(project.shots[i]) = ShotId(project.shots[j]) => i = j

C33_Witness ==
    /\ lastCall.op = "duplicateShot"
    /\ Len(project.shots) >= 3
    /\ prev.project.id # 1
    /\ C33_ShotIdsDistinct

\* C34: when selectShot is only called with null or the id of a shot of the
\* project, selectedShotId is null or the id of a shot of the project after
\* any sequence of addShot, duplicateShot, removeShot, reorderShots and
\* resetProject, so getSelectedShot finds no shot only when selectedShotId
\* is null.
C34_SelectionIsNullOrPresent ==
    /\ selectedShotId = Null \/ selectedShotId \in ShotIds
    /\ getSelectedShot = EmptyPatch => selectedShotId = Null

C34_Witness ==
    /\ lastCall.op = "removeShot"
    /\ prev.selectedShotId = lastCall.id
    /\ lastCall.id \notin ShotIds
    /\ selectedShotId \in ShotIds
    /\ getSelectedShot.id = selectedShotId

\* The counts and the percentage are absent or within their ranges.
ProgressInRange ==
    /\ generationProgress.currentShot = Undefined \/ generationProgress.currentShot >= 1
    /\ generationProgress.totalShots = Undefined \/ generationProgress.totalShots >= 1
    /\ \/ generationProgress.currentShot = Undefined
       \/ generationProgress.totalShots = Undefined
       \/ generationProgress.currentShot <= generationProgress.totalShots
    /\ \/ generationProgress.shotProgress = Undefined
       \/ generationProgress.shotProgress \in 0..100

\* C35: for every stage and every currentShot, totalShots, shotProgress that are
\* absent or satisfy 1 <= currentShot <= totalShots and 0 <= shotProgress <= 100,
\* calculateOverallProgress is an integer of 0..100, and it is 100 only when
\* the stage is completed.
C35_ProgressWithinBounds ==
    ProgressInRange =>
        /\ calculateOverallProgress \in 0..100
        /\ calculateOverallProgress = 100 => generationProgress.stage = "completed"

C35_Witness ==
    /\ lastCall.op = "setGenerationProgress"
    /\ ProgressInRange
    /\ generationProgress.stage = "generating_shots"
    /\ generationProgress.currentShot = 1
    /\ generationProgress.totalShots = 1
    /\ generationProgress.shotProgress = 100
    /\ calculateOverallProgress = 75

\* C36: when the stage is generating_shots and currentShot or totalShots is
\* absent or 0, calculateOverallProgress takes the fixed half of the stage's
\* weight and returns 40.
C36_MissingCountsGiveForty ==
    (/\ generationProgress.stage = "generating_shots"
     /\ ~Truthy(generationProgress.currentShot) \/ ~Truthy(generationProgress.totalShots))
    => calculateOverallProgress = 40

C36_Witness ==
    /\ lastCall.op = "setGenerationProgress"
    /\ generationProgress.stage = "generating_shots"
    /\ generationProgress.currentShot = 3
    /\ generationProgress.totalShots = 0
    /\ generationProgress.shotProgress = 50
    /\ calculateOverallProgress = 40

\* C37: when the stage is failed, calculateOverallProgress returns 0, whatever
\* the pipeline had reached before and whatever currentShot, totalShots and
\* shotProgress hold.
C37_FailedIsZero ==
    generationProgress.stage = "failed" => calculateOverallProgress = 0

C37_Witness ==
    /\ lastCall.op = "setGenerationProgress"
    /\ prev.generationProgress.stage = "assembling"
    /\ generationProgress.stage = "failed"
    /\ generationProgress.currentShot = 6
    /\ generationProgress.totalShots = 6
    /\ generationProgress.shotProgress = 100
    /\ calculateOverallProgress = 0

\* C38: in every reachable state of the store project.status is completed
\* exactly when project.finalVideoUrl is set, and project.status is always
\* draft or completed: no operation sets it to generating or failed.
C38_CompletedIffFinalVideo ==
    /\ project.status = "completed" <=> project.finalVideoUrl # UndefinedStr
    /\ project.status \in {"draft", "completed"}

C38_Witness ==
    /\ lastCall.op = "setFinalVideoUrl"
    /\ prev.project.status = "draft"
    /\ project.status = "completed"
    /\ project.finalVideoUrl = "final.mp4"

C38_WitnessReset ==
    /\ lastCall.op = "resetProject"
    /\ prev.project.status = "completed"
    /\ project.status = "draft"
    /\ project.finalVideoUrl = UndefinedStr

\* C39: at most one handleGenerateAll run is in progress at any time, and
\* while a run is in progress the stage is one of the four active stages, for
\* which the Generate button is disabled, nothing else changing the stage
\* during the run.
C39_AtMostOneRun ==
    /\ Len(runs) <= 1
    /\ runs # << >> => generationProgress.stage \in QueryableStages
    /\ generationProgress.stage \in QueryableStages => GenerateDisabled

C39_Witness ==
    /\ Len(runs) = 1
    /\ runs[1].pc = "voice"
    /\ Len(runs[1].shots) = 2
    /\ ~EveryPromptEmpty
    /\ GenerateDisabled

\* The run's last step has just set the stage to completed.
RunJustCompleted ==
    lastCall.op = "handleGenerateAll" /\ lastCall.step = "completed"

EveryShotCompleted ==
    \A i \in 1..Len(project.shots) :
        project.shots[i].status = "completed" /\ project.shots[i].progress = 100

\* C40: a handleGenerateAll run started on a project with at least one shot
\* eventually sets the stage to completed, and at that moment every shot of
\* the project has status completed and progress 100, however addShot,
\* removeShot, reorderShots, duplicateShot and updateShot interleave with the
\* run's steps.
C40_RunCompletesEveryShot ==
    /\ (runs # << >>) ~> (generationProgress.stage = "completed")
    /\ [](RunJustCompleted => EveryShotCompleted)

============================================================================
